---- MODULE Spec2Model ----
(***************************************************************************)
(* Realtime presence and conversation messaging of Connectify-Backend:     *)
(* the socket.io handlers of the server entry file (join, disconnect,      *)
(* joinConversation, sendMessage, fetchMessages), the onlineUsers map and   *)
(* getConversationId.                                                       *)
(*                                                                          *)
(* Strings are sequences of UTF-16 code units. The empty sequence stands    *)
(* for every falsy id (undefined, null, ""). A socket's id is a one-unit    *)
(* string that no user id or conversation id of the model contains.         *)
(* Node runs one handler at a time: a handler is one action, and an await   *)
(* splits it into the part before and the continuation after.               *)
(***************************************************************************)
EXTENDS Integers, Sequences, FiniteSets, TLC

VARIABLES
    socket,       \* per connection: status, userId (socket.userId), rooms joined
    onlineUsers,  \* the Map userId -> socket.id
    store,        \* the Message collection, in insertion order
    pending,      \* awaited store calls (message.save(), Message.find()) in flight
    now,          \* Date.now()
    nextId,       \* the next _id the Message constructor hands out
    lastOp,       \* the handler step that ran last
    emits         \* the events that step emitted, in order

vars == <<socket, onlineUsers, store, pending, now, nextId, lastOp, emits>>

----------------------------------------------------------------------------
(* Bounds *)

NumConn == 2
MaxSends == 1
MaxPending == 1
MaxIdLen == 2

(* Program constants *)

Dash == 45
FetchLimit == 50

----------------------------------------------------------------------------
(* Strings *)

Empty == <<>>
UserA == <<97>>
UserB == <<98>>

Handles == 1..NumConn
SocketId(h) == <<h>>

\* The default comparator of Array.prototype.sort: code units, left to right,
\* a proper prefix first.
RECURSIVE StrLeq(_, _)
StrLeq(s, t) ==
    IF s = <<>> THEN TRUE
    ELSE IF t = <<>> THEN FALSE
    ELSE IF Head(s) < Head(t) THEN TRUE
    ELSE IF Head(s) > Head(t) THEN FALSE
    ELSE StrLeq(Tail(s), Tail(t))

\* The pair left in the order given.
SortPairAsGiven(userId1, userId2) == <<userId1, userId2>>

\* [userId1, userId2].sort()
SortPair(userId1, userId2) ==
    IF StrLeq(userId1, userId2) THEN <<userId1, userId2>> ELSE <<userId2, userId1>>

\* pair.join('-')
JoinDash(pair) == pair[1] \o <<Dash>> \o pair[2]

getConversationId(userId1, userId2) == JoinDash(SortPair(userId1, userId2))

ConvAB == getConversationId(UserA, UserB)
ConvBB == getConversationId(UserB, UserB)

----------------------------------------------------------------------------
(* Inputs the clients send *)

Users == {UserA, UserB}
JoinIds == Users \cup {Empty}
RoomIds == {ConvAB, ConvBB, Empty}
NoTimestamp == <<>>

\* sendMessage payloads: <<>> is a missing payload, <<d>> a payload d.
Payloads(senders, receivers, convs, stamps) ==
    {<<>>} \cup
    {<<[senderId |-> s, receiverId |-> r, conversationId |-> c, timestamp |-> t]>> :
        s \in senders, r \in receivers, c \in convs, t \in stamps}

SendData == Payloads({Empty, UserA, UserB}, {Empty, UserB}, {Empty, ConvBB}, {NoTimestamp})
HistoryData == Payloads({Empty, UserA}, {UserB}, {Empty}, {NoTimestamp, <<0 - FetchLimit>>})

----------------------------------------------------------------------------
(* The Map onlineUsers *)

EmptyMap == [k \in {} |-> Empty]
MapSet(m, k, v) == [x \in (DOMAIN m) \cup {k} |-> IF x = k THEN v ELSE m[x]]
MapDelete(m, k) == [x \in (DOMAIN m) \ {k} |-> m[x]]
\* The socket ids taken for the user ids: onlineUsers.values().
MapValues(m) == {m[k] : k \in DOMAIN m}
MapKeys(m) == DOMAIN m
MapHas(m, k) == k \in DOMAIN m

----------------------------------------------------------------------------
(* socket.io: who an emit reaches *)

Connected == {h \in Handles : socket[h].status = "connected"}

\* io.to(room): the connected sockets that joined the room; every socket is in
\* the room named by its own id.
InRoom(room) == {h \in Connected : room \in socket[h].rooms \/ room = SocketId(h)}

\* io.emit(ev, body)
EmitAll(ev, body) == [ev |-> ev, to |-> "all", room |-> Empty, rcpt |-> Connected, body |-> body]

\* io.to(room).emit(ev, body)
EmitRoom(room, ev, body) ==
    [ev |-> ev, to |-> "room", room |-> room, rcpt |-> InRoom(room), body |-> body]

\* socket.emit(ev, body): to that socket alone, dropped once it has disconnected
EmitSocket(h, ev, body) ==
    [ev |-> ev, to |-> "socket", room |-> SocketId(h), rcpt |-> {h} \cap Connected, body |-> body]

----------------------------------------------------------------------------
(* io.on('connection') *)

Connect(h) ==
    /\ socket[h].status = "new"
    /\ \A g \in Handles : g < h => socket[g].status # "new"
    /\ socket' = [socket EXCEPT ![h].status = "connected"]
    /\ lastOp' = [op |-> "connection", h |-> h]
    /\ emits' = <<>>
    /\ UNCHANGED <<onlineUsers, store, pending, now, nextId>>

(* socket.on('join') *)

Bind(sock, userId) == [sock EXCEPT !.userId = userId]

Announce(m, userId, sid) == MapSet(m, userId, sid)

Join(h, userId) ==
    /\ socket[h].status = "connected"
    /\ lastOp' = [op |-> "join", h |-> h, userId |-> userId]
    /\ IF userId = Empty
       THEN /\ emits' = <<>>
            /\ UNCHANGED <<socket, onlineUsers>>
       ELSE /\ socket' = [socket EXCEPT ![h] = Bind(@, userId)]
            /\ onlineUsers' = Announce(onlineUsers, userId, SocketId(h))
            /\ emits' = <<EmitAll("onlineUsers", MapKeys(onlineUsers'))>>
    /\ UNCHANGED <<store, pending, now, nextId>>

(* socket.on('disconnect') *)

Withdraw(m, sock, sid) == MapDelete(m, sock.userId)

Disconnect(h) ==
    /\ socket[h].status = "connected"
    /\ socket' = [socket EXCEPT ![h].status = "disconnected", ![h].rooms = {}]
    /\ lastOp' = [op |-> "disconnect", h |-> h]
    /\ IF socket[h].userId # Empty
       THEN /\ onlineUsers' = Withdraw(onlineUsers, socket[h], SocketId(h))
            /\ emits' = <<[EmitAll("onlineUsers", MapKeys(onlineUsers')) EXCEPT
                              !.rcpt = Connected \ {h}]>>
       ELSE /\ emits' = <<>>
            /\ UNCHANGED onlineUsers
    /\ UNCHANGED <<store, pending, now, nextId>>

(* socket.on('joinConversation') *)

JoinConversation(h, conversationId) ==
    /\ socket[h].status = "connected"
    /\ lastOp' = [op |-> "joinConversation", h |-> h, conversationId |-> conversationId]
    /\ emits' = <<>>
    /\ IF conversationId = Empty
       THEN UNCHANGED socket
       ELSE socket' = [socket EXCEPT ![h].rooms = @ \cup {conversationId}]
    /\ UNCHANGED <<onlineUsers, store, pending, now, nextId>>

----------------------------------------------------------------------------
(* socket.on('sendMessage') *)

\* The validation without the receiver's check.
InvalidSenderOnly(messageData) ==
    \/ messageData = <<>>
    \/ messageData[1].senderId = Empty

Invalid(messageData) ==
    \/ messageData = <<>>
    \/ messageData[1].senderId = Empty
    \/ messageData[1].receiverId = Empty

\* The id computed only when the payload brings none.
StampIfAbsent(data) ==
    IF data.conversationId # Empty THEN data
    ELSE [data EXCEPT !.conversationId = getConversationId(data.senderId, data.receiverId)]

\* messageData.conversationId = getConversationId(senderId, receiverId)
Stamp(data) ==
    [data EXCEPT !.conversationId = getConversationId(data.senderId, data.receiverId)]

\* new Message(messageData): the document gets its _id, and its timestamp when
\* the payload brings none.
NewMessage(data, id, t) ==
    [id |-> id,
     senderId |-> data.senderId,
     receiverId |-> data.receiverId,
     conversationId |-> data.conversationId,
     timestamp |-> IF data.timestamp = NoTimestamp THEN t ELSE data.timestamp[1]]

Saves == {i \in 1..Len(pending) : pending[i].kind = "save"}
Finds == {i \in 1..Len(pending) : pending[i].kind = "find"}
Without(seq, i) == SubSeq(seq, 1, i - 1) \o SubSeq(seq, i + 1, Len(seq))

\* Who the two emits would reach if they ran now: the group's members and the
\* receiver's registered socket id (Empty: none). Kept with a save in flight
\* only to compare with the recipients at fan-out.
Seen(conversationId, receiverId) ==
    [group |-> InRoom(conversationId),
     direct |-> IF MapHas(onlineUsers, receiverId) THEN onlineUsers[receiverId] ELSE Empty]

\* Up to the await: validation, the conversation id, the document, save() called.
SendMessage(h, messageData, tick) ==
    /\ socket[h].status = "connected"
    /\ emits' = <<>>
    /\ IF Invalid(messageData)
       THEN /\ lastOp' = [op |-> "sendMessage", h |-> h, accepted |-> FALSE]
            /\ UNCHANGED <<pending, now, nextId>>
       ELSE /\ Len(pending) < MaxPending
            /\ nextId <= MaxSends
            /\ LET conversationId == getConversationId(messageData[1].senderId,
                                                       messageData[1].receiverId)
                   message == NewMessage(Stamp(messageData[1]), nextId, now)
               IN  pending' = Append(pending,
                       [kind |-> "save", h |-> h, conversationId |-> conversationId,
                        message |-> message, given |-> messageData[1],
                        seen |-> Seen(conversationId, messageData[1].receiverId)])
            /\ lastOp' = [op |-> "sendMessage", h |-> h, accepted |-> TRUE]
            /\ nextId' = nextId + 1
            /\ now' = now + tick
    /\ UNCHANGED <<socket, onlineUsers, store>>

\* The two emits to the recipients as they were when the message was submitted.
FanOutSnapshot(req) ==
    <<[EmitRoom(req.conversationId, "message", req.message)
          EXCEPT !.rcpt = req.seen.group \cap Connected]>> \o
    (IF req.seen.direct # Empty
     THEN <<EmitRoom(req.seen.direct, "message", req.message)>>
     ELSE <<>>)

\* The emit to the conversation's group alone.
FanOutGroupOnly(req) == <<EmitRoom(req.conversationId, "message", req.message)>>

\* After a save that resolved: the two emits.
FanOut(req) ==
    <<EmitRoom(req.conversationId, "message", req.message)>> \o
    (IF MapHas(onlineUsers, req.given.receiverId)
     THEN <<EmitRoom(onlineUsers[req.given.receiverId], "message", req.message)>>
     ELSE <<>>)

\* The error sent to the conversation's group instead of the sender.
SendFailedToGroup(req) ==
    <<EmitRoom(req.conversationId, "messageError", "Failed to send message")>>

\* The catch block.
SendFailed(req) == <<EmitSocket(req.h, "messageError", "Failed to send message")>>

\* The fan-out made only while the sending socket is still connected.
SaveOkIfConnected(i) ==
    /\ i \in Saves
    /\ store' = Append(store, pending[i].message)
    /\ pending' = Without(pending, i)
    /\ emits' = IF pending[i].h \in Connected THEN FanOut(pending[i]) ELSE <<>>
    /\ lastOp' = [op |-> "saveOk", h |-> pending[i].h, req |-> pending[i]]
    /\ UNCHANGED <<socket, onlineUsers, now, nextId>>

\* The fan-out run without the save having stored the message.
SaveOkUnsaved(i) ==
    /\ i \in Saves
    /\ pending' = Without(pending, i)
    /\ emits' = FanOut(pending[i])
    /\ lastOp' = [op |-> "saveOk", h |-> pending[i].h, req |-> pending[i]]
    /\ UNCHANGED <<socket, onlineUsers, store, now, nextId>>

SaveOk(i) ==
    /\ i \in Saves
    /\ store' = Append(store, pending[i].message)
    /\ pending' = Without(pending, i)
    /\ emits' = FanOut(pending[i])
    /\ lastOp' = [op |-> "saveOk", h |-> pending[i].h, req |-> pending[i]]
    /\ UNCHANGED <<socket, onlineUsers, now, nextId>>

\* The catch block run after the document was written all the same.
SaveFailStored(i) ==
    /\ i \in Saves
    /\ store' = Append(store, pending[i].message)
    /\ pending' = Without(pending, i)
    /\ emits' = SendFailed(pending[i])
    /\ lastOp' = [op |-> "saveFail", h |-> pending[i].h, req |-> pending[i]]
    /\ UNCHANGED <<socket, onlineUsers, now, nextId>>

SaveFail(i) ==
    /\ i \in Saves
    /\ pending' = Without(pending, i)
    /\ emits' = SendFailed(pending[i])
    /\ lastOp' = [op |-> "saveFail", h |-> pending[i].h, req |-> pending[i]]
    /\ UNCHANGED <<socket, onlineUsers, store, now, nextId>>

----------------------------------------------------------------------------
(* socket.on('fetchMessages') *)

\* Message.find({ conversationId })
Filter(msgs, conversationId) ==
    SelectSeq(msgs, LAMBDA m : m.conversationId = conversationId)

\* The order of .sort({ timestamp: 1 }); MongoDB leaves the order of equal
\* timestamps open: tie picks one of the two orders by _id.
Before(m1, m2, tie) ==
    \/ m1.timestamp < m2.timestamp
    \/ /\ m1.timestamp = m2.timestamp
       /\ IF tie = 1 THEN m1.id < m2.id ELSE m1.id > m2.id

RECURSIVE Insert(_, _, _)
Insert(sorted, m, tie) ==
    IF sorted = <<>> THEN <<m>>
    ELSE IF Before(m, Head(sorted), tie) THEN <<m>> \o sorted
    ELSE <<Head(sorted)>> \o Insert(Tail(sorted), m, tie)

RECURSIVE SortByTimestamp(_, _)
SortByTimestamp(msgs, tie) ==
    IF msgs = <<>> THEN <<>>
    ELSE Insert(SortByTimestamp(Tail(msgs), tie), Head(msgs), tie)

\* A query without .limit
LimitNone(msgs, n) == msgs

\* .limit(n)
Limit(msgs, n) == SubSeq(msgs, 1, IF Len(msgs) < n THEN Len(msgs) ELSE n)

\* Message.find({ conversationId }).sort({ timestamp: 1 }).limit(50)
Find(msgs, conversationId, tie) ==
    Limit(SortByTimestamp(Filter(msgs, conversationId), tie), FetchLimit)

FetchMessages(h, conversationId) ==
    /\ socket[h].status = "connected"
    /\ emits' = <<>>
    /\ IF conversationId = Empty
       THEN /\ lastOp' = [op |-> "fetchMessages", h |-> h, accepted |-> FALSE]
            /\ UNCHANGED pending
       ELSE /\ Len(pending) < MaxPending
            /\ pending' = Append(pending,
                    [kind |-> "find", h |-> h, conversationId |-> conversationId])
            /\ lastOp' = [op |-> "fetchMessages", h |-> h, accepted |-> TRUE]
    /\ UNCHANGED <<socket, onlineUsers, store, now, nextId>>

FindOk(i, tie) ==
    /\ i \in Finds
    /\ pending' = Without(pending, i)
    /\ emits' = <<EmitSocket(pending[i].h, "previousMessages",
                    [conversationId |-> pending[i].conversationId,
                     messages |-> Find(store, pending[i].conversationId, tie)])>>
    /\ lastOp' = [op |-> "findOk", h |-> pending[i].h, req |-> pending[i]]
    /\ UNCHANGED <<socket, onlineUsers, store, now, nextId>>

FindFail(i) ==
    /\ i \in Finds
    /\ pending' = Without(pending, i)
    /\ emits' = <<EmitSocket(pending[i].h, "fetchError", "Failed to fetch messages")>>
    /\ lastOp' = [op |-> "findFail", h |-> pending[i].h, req |-> pending[i]]
    /\ UNCHANGED <<socket, onlineUsers, store, now, nextId>>

----------------------------------------------------------------------------
(* The server with an empty collection *)

NewSocket == [status |-> "new", userId |-> Empty, rooms |-> {}]

InitWith(history) ==
    /\ socket = [h \in Handles |-> NewSocket]
    /\ onlineUsers = EmptyMap
    /\ store = history
    /\ pending = <<>>
    /\ now = 1
    /\ nextId = 1
    /\ lastOp = [op |-> "listen", h |-> 0]
    /\ emits = <<>>

Init == InitWith(<<>>)

Next ==
    \/ \E h \in Handles : Connect(h)
    \/ \E h \in Handles, userId \in JoinIds : Join(h, userId)
    \/ \E h \in Handles : Disconnect(h)
    \/ \E h \in Handles, conversationId \in RoomIds : JoinConversation(h, conversationId)
    \/ \E h \in Handles, messageData \in SendData : SendMessage(h, messageData, 1)
    \/ \E i \in 1..MaxPending : SaveOk(i)
    \/ \E i \in 1..MaxPending : SaveFail(i)
    \/ \E h \in Handles, conversationId \in RoomIds : FetchMessages(h, conversationId)
    \/ \E i \in 1..MaxPending, tie \in {0, 1} : FindOk(i, tie)
    \/ \E i \in 1..MaxPending : FindFail(i)

Spec == Init /\ [][Next]_vars

----------------------------------------------------------------------------
(* The server started on a collection that earlier runs filled *)

\* n stored messages, every tenth one of another conversation, with timestamps
\* in insertion order or against it. Their ids and timestamps lie before this
\* run's (ids from 1, the clock from 1).
History(n, reversed) ==
    [i \in 1..n |->
        [id |-> i - n,
         senderId |-> IF i % 10 = 5 THEN UserB ELSE IF i % 2 = 0 THEN UserA ELSE UserB,
         receiverId |-> IF i % 10 = 5 THEN UserB ELSE IF i % 2 = 0 THEN UserB ELSE UserA,
         conversationId |-> IF i % 10 = 5 THEN ConvBB ELSE ConvAB,
         timestamp |-> IF reversed THEN 1 - i ELSE i - n]]

HistoryLengths == {0, 2, FetchLimit + 5, FetchLimit + 6, FetchLimit + 7}

InitHistory ==
    \E n \in HistoryLengths, reversed \in BOOLEAN : InitWith(History(n, reversed))

NextHistory ==
    \/ Connect(1)
    \/ \E messageData \in HistoryData, tick \in {0, 1} : SendMessage(1, messageData, tick)
    \/ \E i \in 1..MaxPending : SaveOk(i)
    \/ \E i \in 1..MaxPending : SaveFail(i)
    \/ \E conversationId \in {ConvAB, ConvBB} : FetchMessages(1, conversationId)
    \/ \E i \in 1..MaxPending, tie \in {0, 1} : FindOk(i, tie)
    \/ \E i \in 1..MaxPending : FindFail(i)

SpecHistory == InitHistory /\ [][NextHistory]_vars

----------------------------------------------------------------------------
(* Fetches on the filled collection, among sockets that announce themselves, *)
(* join the conversation's group and disconnect.                              *)

NextFetch ==
    \/ \E h \in Handles : Connect(h)
    \/ \E h \in Handles : Join(h, UserB)
    \/ \E h \in Handles : Disconnect(h)
    \/ \E h \in Handles : JoinConversation(h, ConvAB)
    \/ \E h \in Handles, conversationId \in {ConvAB, ConvBB} :
           FetchMessages(h, conversationId)
    \/ \E i \in 1..MaxPending, tie \in {0, 1} : FindOk(i, tie)
    \/ \E i \in 1..MaxPending : FindFail(i)

SpecFetch == InitHistory /\ [][NextFetch]_vars

----------------------------------------------------------------------------
(* Clients that name any room in joinConversation: the conversation's id or  *)
(* the id of a socket.                                                        *)

RoomNames == {ConvAB, SocketId(NumConn)}
RoomsData == Payloads({UserA}, {UserB}, {Empty}, {NoTimestamp})

NextRooms ==
    \/ \E h \in Handles : Connect(h)
    \/ \E h \in Handles : Join(h, UserB)
    \/ \E h \in Handles : Disconnect(h)
    \/ \E h \in Handles, conversationId \in RoomNames : JoinConversation(h, conversationId)
    \/ \E h \in Handles, messageData \in RoomsData : SendMessage(h, messageData, 1)
    \/ \E i \in 1..MaxPending : SaveOk(i)
    \/ \E i \in 1..MaxPending : SaveFail(i)

SpecRooms == Init /\ [][NextRooms]_vars

----------------------------------------------------------------------------
(* getConversationId on its own *)

Alphabet == {97, 98, Dash}
Ids == UNION {[1..k -> Alphabet] : k \in 1..MaxIdLen}
HasDash(id) == \E i \in 1..Len(id) : id[i] = Dash

\* The ids of two conversations, drawn at the start.
InitAddress ==
    /\ \E a \in Ids, b \in Ids, c \in Ids, d \in Ids :
           lastOp = [op |-> "ids", a |-> a, b |-> b, c |-> c, d |-> d]
    /\ socket = [h \in Handles |-> NewSocket]
    /\ onlineUsers = EmptyMap
    /\ store = <<>>
    /\ pending = <<>>
    /\ now = 1
    /\ nextId = 1
    /\ emits = <<>>

Address ==
    /\ lastOp.op = "ids"
    /\ lastOp' = [op |-> "address", a |-> lastOp.a, b |-> lastOp.b,
                  c |-> lastOp.c, d |-> lastOp.d,
                  ab |-> getConversationId(lastOp.a, lastOp.b),
                  ba |-> getConversationId(lastOp.b, lastOp.a),
                  cd |-> getConversationId(lastOp.c, lastOp.d)]
    /\ UNCHANGED <<socket, onlineUsers, store, pending, now, nextId, emits>>

NextAddress == Address

SpecAddress == InitAddress /\ [][NextAddress]_vars

----------------------------------------------------------------------------
(* What the properties below read *)

Range(seq) == {seq[i] : i \in DOMAIN seq}
Min(x, y) == IF x < y THEN x ELSE y

DisconnectStep(h) ==
    socket[h].status = "connected" /\ socket'[h].status = "disconnected"

JoinStep(h, userId) ==
    /\ socket[h].status = "connected"
    /\ lastOp'.op = "join"
    /\ lastOp'.h = h
    /\ lastOp'.userId = userId
    /\ socket'[h].userId = userId
    /\ userId # Empty

\* A save or a find completed in this step.
Completed(op) == lastOp'.op = op /\ Len(pending') < Len(pending)

\* How many 'message' events of the last step reached connection h.
Received(h) ==
    Cardinality({i \in DOMAIN emits : emits[i].ev = "message" /\ h \in emits[i].rcpt})

----------------------------------------------------------------------------
(* C1. Stale withdraw: when connection h disconnects while the registry holds *)
(* a newer handle for h's user, the entry of that user stays as it was and    *)
(* the user is still in the online set that is broadcast.                      *)
StaleWithdrawKeepsPresence ==
    [][\A h \in Handles, u \in Users :
          (/\ DisconnectStep(h)
           /\ socket[h].userId = u
           /\ MapHas(onlineUsers, u)
           /\ onlineUsers[u] # SocketId(h))
          => /\ MapHas(onlineUsers', u)
             /\ onlineUsers'[u] = onlineUsers[u]
             /\ \A i \in DOMAIN emits' :
                    emits'[i].ev = "onlineUsers" => u \in emits'[i].body]_vars

----------------------------------------------------------------------------
(* C2. Persistence-failure isolation: a step in which a save fails leaves the *)
(* store, the registry and the sockets as they were, emits no 'message', and  *)
(* emits one event only: 'messageError', to the sending socket alone (which   *)
(* gets it when it is still connected).                                        *)
PersistenceFailureIsolation ==
    [][Completed("saveFail") =>
          /\ store' = store
          /\ onlineUsers' = onlineUsers
          /\ socket' = socket
          /\ Len(emits') = 1
          /\ emits'[1].ev = "messageError"
          /\ emits'[1].to = "socket"
          /\ emits'[1].room = SocketId(lastOp'.h)
          /\ emits'[1].rcpt = {lastOp'.h} \cap Connected
          /\ lastOp'.req.message \notin Range(store')]_vars

\* A save failed for a connected sender while another connection sat in the
\* conversation's group and the receiver was registered.
PersistenceFailureWitness ==
    /\ lastOp.op = "saveFail"
    /\ emits[1].rcpt = {lastOp.h}
    /\ InRoom(lastOp.req.conversationId) \ {lastOp.h} # {}
    /\ MapHas(onlineUsers, lastOp.req.given.receiverId)
    /\ store = <<>>

----------------------------------------------------------------------------
(* C3. History window: a fetch answers with the min(50, n) most recent of the *)
(* n messages of the conversation, in ascending timestamp order: no message   *)
(* left out is newer than a message returned.                                  *)
HistoryWindowMostRecent ==
    lastOp.op = "findOk" =>
        LET res == emits[1].body.messages
            all == Filter(store, lastOp.req.conversationId)
        IN  /\ Len(res) = Min(Len(all), FetchLimit)
            /\ Range(res) \subseteq Range(all)
            /\ \A i \in DOMAIN res, j \in DOMAIN res :
                   i < j => res[i].timestamp <= res[j].timestamp
            /\ \A m \in Range(all) \ Range(res), r \in Range(res) :
                   m.timestamp <= r.timestamp

----------------------------------------------------------------------------
(* C4. No duplicate delivery: after a successful send no connection got the  *)
(* 'message' event more than once, and the direct emit reached no member of   *)
(* the conversation's group.                                                   *)
NoDuplicateDelivery ==
    lastOp.op = "saveOk" =>
        /\ \A h \in Handles : Received(h) <= 1
        /\ Len(emits) = 2 => emits[1].rcpt \cap emits[2].rcpt = {}

----------------------------------------------------------------------------
(* C5. Server-side conversation id: every stored message, every message of a *)
(* save in flight and every emitted message carries getConversationId of its  *)
(* sender and receiver, and the fan-out goes to the group of that id,         *)
(* whatever conversationId the payload brought.                                *)
ServerSideConversationId ==
    /\ \A m \in Range(store) :
           m.conversationId = getConversationId(m.senderId, m.receiverId)
    /\ \A i \in Saves :
           pending[i].message.conversationId =
               getConversationId(pending[i].given.senderId, pending[i].given.receiverId)
    /\ lastOp.op = "saveOk" =>
           LET c == getConversationId(lastOp.req.given.senderId,
                                      lastOp.req.given.receiverId)
           IN  /\ store[Len(store)].conversationId = c
               /\ emits[1].to = "room"
               /\ emits[1].room = c
               /\ \A i \in DOMAIN emits :
                      emits[i].ev = "message" => emits[i].body.conversationId = c

\* A send whose payload named another conversation's id was stored and fanned
\* out while a connection sat in the group of the id the payload named, and
\* that connection got nothing.
ServerSideConversationWitness ==
    /\ lastOp.op = "saveOk"
    /\ lastOp.req.given.conversationId # Empty
    /\ lastOp.req.given.conversationId # lastOp.req.conversationId
    /\ \E h \in InRoom(lastOp.req.given.conversationId) : Received(h) = 0
    /\ \E h \in Handles : Received(h) > 0

----------------------------------------------------------------------------
(* C6. Conversation addressing: over ids without the separator,               *)
(* getConversationId(a, b) = getConversationId(b, a), and two different        *)
(* unordered pairs never get the same id.                                      *)
AddressingCommutativeInjective ==
    (/\ lastOp.op = "address"
     /\ ~HasDash(lastOp.a) /\ ~HasDash(lastOp.b)
     /\ ~HasDash(lastOp.c) /\ ~HasDash(lastOp.d))
    => /\ lastOp.ab = lastOp.ba
       /\ {lastOp.a, lastOp.b} # {lastOp.c, lastOp.d} => lastOp.ab # lastOp.cd

\* Two different pairs of separator-free ids whose ids have the same length,
\* the first pair given in descending order.
AddressingWitness ==
    /\ lastOp.op = "address"
    /\ ~HasDash(lastOp.a) /\ ~HasDash(lastOp.b)
    /\ ~HasDash(lastOp.c) /\ ~HasDash(lastOp.d)
    /\ lastOp.a # lastOp.b
    /\ StrLeq(lastOp.b, lastOp.a)
    /\ {lastOp.a, lastOp.b} # {lastOp.c, lastOp.d}
    /\ Len(lastOp.ab) = Len(lastOp.cd)
    /\ lastOp.ab = lastOp.b \o <<Dash>> \o lastOp.a

----------------------------------------------------------------------------
(* C7. Session binding is irreversible: once socket.userId is set, no step    *)
(* changes it.                                                                 *)
SessionBindingIrreversible ==
    [][\A h \in Handles :
          socket[h].userId # Empty => socket'[h].userId = socket[h].userId]_vars

----------------------------------------------------------------------------
(* C8. Last connect wins: right after connection h announces u, lookup(u) is *)
(* h; and when the connection on record for u disconnects, u has no entry     *)
(* any more. (One handle per user at most: onlineUsers is a Map.)              *)
LastConnectWins ==
    [][/\ \A h \in Handles, u \in Users :
              JoinStep(h, u) => MapHas(onlineUsers', u) /\ onlineUsers'[u] = SocketId(h)
       /\ \A h \in Handles, u \in Users :
              (DisconnectStep(h) /\ MapHas(onlineUsers, u) /\ onlineUsers[u] = SocketId(h))
              => ~MapHas(onlineUsers', u)]_vars

----------------------------------------------------------------------------
(* C9. Send-then-fetch round trip: a fetch of a conversation returns every   *)
(* message of it that was sent and stored in this run exactly once, with      *)
(* conversationId "a-b" for sender a and receiver b.                           *)
SendThenFetchRoundTrip ==
    lastOp.op = "findOk" =>
        LET res == emits[1].body.messages
        IN  \A m \in Range(store) :
                (/\ m.id >= 1
                 /\ m.senderId = UserA
                 /\ m.receiverId = UserB
                 /\ lastOp.req.conversationId = <<97, Dash, 98>>)
                => /\ Cardinality({j \in DOMAIN res : res[j].id = m.id}) = 1
                   /\ \A j \in DOMAIN res :
                          res[j].id = m.id => res[j].conversationId = <<97, Dash, 98>>

----------------------------------------------------------------------------
(* C10. Send outcome: a completed send is either stored once and emitted as   *)
(* 'message' to its conversation's group (and to the receiver's registered    *)
(* handle), with no 'messageError'; or not stored, with no 'message' emitted, *)
(* and 'messageError' to the sender. No 'message' event carries a message     *)
(* that is not in the store, and a send in flight is in neither state.         *)
SendOutcome ==
    /\ \A i \in DOMAIN emits : emits[i].ev = "message" => emits[i].body \in Range(store)
    /\ \A i \in Saves : pending[i].message \notin Range(store)
    /\ lastOp.op = "saveOk" =>
           LET req == lastOp.req
           IN  /\ Cardinality({i \in DOMAIN store : store[i] = req.message}) = 1
               /\ Len(emits) >= 1
               /\ emits[1] = EmitRoom(req.conversationId, "message", req.message)
               /\ \A i \in DOMAIN emits : emits[i].ev = "message"
               /\ MapHas(onlineUsers, req.given.receiverId) =>
                      /\ Len(emits) = 2
                      /\ emits[2].room = onlineUsers[req.given.receiverId]
    /\ lastOp.op = "saveFail" =>
           /\ lastOp.req.message \notin Range(store)
           /\ \A i \in DOMAIN emits : emits[i].ev # "message"
           /\ \E i \in DOMAIN emits :
                  emits[i].ev = "messageError" /\ emits[i].room = SocketId(lastOp.h)

\* A send was stored and reached a member of the group and, on the direct
\* path, the receiver's registered handle.
SendOutcomeWitness ==
    /\ lastOp.op = "saveOk"
    /\ Len(emits) = 2
    /\ emits[1].rcpt # {}
    /\ emits[2].rcpt # {}
    /\ emits[1].rcpt # emits[2].rcpt

----------------------------------------------------------------------------
(* C11. Store evolution: the step in which a save resolves appends that       *)
(* send's one message to the store; every other step (join, disconnect,       *)
(* joinConversation, fetchMessages, a rejected or failed send, a send still   *)
(* in flight) leaves the store as it was. No step removes or alters a stored  *)
(* message.                                                                    *)
StoreEvolution ==
    [][/\ Completed("saveOk") => store' = Append(store, lastOp'.req.message)
       /\ ~Completed("saveOk") => store' = store
       /\ Len(store') >= Len(store)
       /\ SubSeq(store', 1, Len(store)) = store]_vars

\* A stored message was still there after a bound connection disconnected.
StoreEvolutionWitness ==
    /\ lastOp.op = "disconnect"
    /\ Len(store) = 1
    /\ socket[lastOp.h].userId # Empty
    /\ pending = <<>>

----------------------------------------------------------------------------
(* C12. Global presence broadcast: a join with a userId and the disconnect of *)
(* a bound connection each emit one event, 'onlineUsers', to every connected  *)
(* socket, carrying the keys of the registry as that step left it; and the    *)
(* registry changes in no step without that broadcast.                         *)
BroadcastOf(keys, everyone) ==
    /\ Len(emits') = 1
    /\ emits'[1].ev = "onlineUsers"
    /\ emits'[1].to = "all"
    /\ emits'[1].rcpt = everyone
    /\ emits'[1].body = keys

GlobalPresenceBroadcast ==
    [][LET keys == DOMAIN onlineUsers'
           everyone == {g \in Handles : socket'[g].status = "connected"}
       IN  /\ \A h \in Handles, u \in Users :
                  JoinStep(h, u) => BroadcastOf(keys, everyone)
           /\ \A h \in Handles :
                  (DisconnectStep(h) /\ socket[h].userId # Empty)
                  => BroadcastOf(keys, everyone)
           /\ onlineUsers' # onlineUsers => BroadcastOf(keys, everyone)]_vars

\* Two users are online and the broadcast that said so reached two sockets.
GlobalPresenceWitness ==
    /\ lastOp.op = "join"
    /\ Len(emits) = 1
    /\ emits[1].body = {UserA, UserB}
    /\ Cardinality(emits[1].rcpt) = 2
    /\ DOMAIN onlineUsers = {UserA, UserB}

----------------------------------------------------------------------------
----------------------------------------------------------------------------
----------------------------------------------------------------------------
(* C14. Offline delivery is a no-op and the receiver's own fetch recovers the *)
(* message: a message sent in this run to a receiver without presence entry,  *)
(* once stored, is in the answer to a later fetch of its conversation.         *)
OfflineRecovery ==
    lastOp.op = "findOk" =>
        \A m \in Range(store) :
            (/\ m.id >= 1
             /\ ~MapHas(onlineUsers, m.receiverId)
             /\ m.conversationId = lastOp.req.conversationId)
            => \E j \in DOMAIN emits[1].body.messages : emits[1].body.messages[j] = m

\* The part of C14 before the fetch: a successful send whose receiver has no
\* presence entry is stored and makes the group emit only, so no connection
\* outside the group gets it; 'message' events occur in the step of their own
\* save alone, never in a join, a joinConversation or a connection; and a
\* stored message otherwise leaves the server only in the 'previousMessages'
\* answer to the socket that fetched.
OfflineDeliveryNoOp ==
    /\ (lastOp.op = "saveOk" /\ ~MapHas(onlineUsers, lastOp.req.given.receiverId)) =>
           /\ lastOp.req.message \in Range(store)
           /\ Len(emits) = 1
           /\ emits[1].to = "room" /\ emits[1].room = lastOp.req.conversationId
           /\ \A h \in Handles :
                  lastOp.req.conversationId \notin socket[h].rooms => Received(h) = 0
    /\ \A i \in DOMAIN emits :
           /\ emits[i].ev = "message" =>
                  lastOp.op = "saveOk" /\ emits[i].body = lastOp.req.message
           /\ emits[i].ev = "previousMessages" =>
                  /\ lastOp.op = "findOk"
                  /\ emits[i].to = "socket"
                  /\ emits[i].rcpt \subseteq {lastOp.h}
           /\ emits[i].ev \in {"message", "previousMessages", "onlineUsers",
                               "messageError", "fetchError"}

\* A message was stored while its receiver was offline and outside the group;
\* the receiver then joined, and that step carried no message.
OfflineDeliveryWitness ==
    /\ lastOp.op = "join"
    /\ Len(store) = 1
    /\ lastOp.userId = store[1].receiverId
    /\ store[1].conversationId \notin socket[lastOp.h].rooms
    /\ Len(emits) = 1
    /\ emits[1].ev = "onlineUsers"
    /\ lastOp.h \in emits[1].rcpt

----------------------------------------------------------------------------
(* C15. Fetch outcome: a fetch with a non-empty conversationId emits nothing  *)
(* when submitted, and its read completes with exactly one event, addressed   *)
(* to the requesting socket alone: 'previousMessages' with at most 50 stored  *)
(* messages, each of the requested conversation, in ascending timestamp       *)
(* order, or 'fetchError' when the read fails. No other connection gets an    *)
(* event, and registry, bindings, groups and store stay as they were.          *)
FetchOutcome ==
    [][/\ (lastOp'.op = "fetchMessages" /\ lastOp'.accepted) =>
              /\ emits' = <<>>
              /\ Len(pending') = Len(pending) + 1
              /\ pending'[Len(pending')].kind = "find"
              /\ pending'[Len(pending')].h = lastOp'.h
              /\ pending'[Len(pending')].conversationId # Empty
              /\ UNCHANGED <<socket, onlineUsers, store>>
       /\ (Completed("findOk") \/ Completed("findFail")) =>
              /\ lastOp'.req \in Range(pending)
              /\ lastOp'.req.kind = "find"
              /\ Len(pending') = Len(pending) - 1
              /\ Len(emits') = 1
              /\ emits'[1].to = "socket"
              /\ emits'[1].room = SocketId(lastOp'.req.h)
              /\ emits'[1].rcpt = IF socket[lastOp'.req.h].status = "connected"
                                  THEN {lastOp'.req.h} ELSE {}
              /\ UNCHANGED <<socket, onlineUsers, store>>
       /\ Completed("findFail") => emits'[1].ev = "fetchError"
       /\ Completed("findOk") =>
              LET messages == emits'[1].body.messages
                  conversationId == lastOp'.req.conversationId
              IN  /\ emits'[1].ev = "previousMessages"
                  /\ emits'[1].body.conversationId = conversationId
                  /\ Len(messages) <= FetchLimit
                  /\ \A j \in DOMAIN messages :
                         /\ messages[j] \in Range(store)
                         /\ messages[j].conversationId = conversationId
                  /\ \A j, k \in DOMAIN messages :
                         j < k => messages[j].timestamp <= messages[k].timestamp
      ]_vars

\* A fetch answered with a full page of 50 messages to its requester, while
\* another connection, a member of the conversation's group, got nothing, and
\* a user is registered.
FetchOutcomeWitness ==
    /\ lastOp.op = "findOk"
    /\ Len(emits) = 1
    /\ emits[1].ev = "previousMessages"
    /\ Len(emits[1].body.messages) = FetchLimit
    /\ emits[1].rcpt = {lastOp.req.h}
    /\ DOMAIN onlineUsers # {}
    /\ \E h \in Handles \ {lastOp.req.h} :
           /\ socket[h].status = "connected"
           /\ lastOp.req.conversationId \in socket[h].rooms

----------------------------------------------------------------------------
(* C16. Presence entries are bounded by their connection's lifetime: every    *)
(* entry U -> id names a socket that is still connected and bound to U, and   *)
(* once no socket is connected the registry is empty.                          *)
PresenceBoundedByLifetime ==
    /\ \A u \in DOMAIN onlineUsers :
           \E h \in Handles :
               /\ onlineUsers[u] = SocketId(h)
               /\ socket[h].status = "connected"
               /\ socket[h].userId = u
    /\ (\A h \in Handles : socket[h].status = "disconnected") => DOMAIN onlineUsers = {}

----------------------------------------------------------------------------
(* C17. Input errors mutate nothing: a join without userId, a joinConversation *)
(* without conversationId, a sendMessage without payload, senderId or          *)
(* receiverId, and a fetchMessages without conversationId leave the registry,  *)
(* the bindings, the groups, the store and the requests in flight as they      *)
(* were and emit nothing; a send or fetch that is taken up has those fields.   *)
InputErrorsMutateNothing ==
    [][/\ (\/ lastOp'.op = "join" /\ lastOp'.userId = Empty
           \/ lastOp'.op = "joinConversation" /\ lastOp'.conversationId = Empty
           \/ lastOp'.op \in {"sendMessage", "fetchMessages"} /\ ~lastOp'.accepted)
          => /\ emits' = <<>>
             /\ UNCHANGED <<socket, onlineUsers, store, pending, now, nextId>>
       /\ (lastOp'.op = "sendMessage" /\ lastOp'.accepted) =>
              /\ Len(pending') = Len(pending) + 1
              /\ pending'[Len(pending')].given.senderId # Empty
              /\ pending'[Len(pending')].given.receiverId # Empty
       /\ (lastOp'.op = "fetchMessages" /\ lastOp'.accepted) =>
              /\ Len(pending') = Len(pending) + 1
              /\ pending'[Len(pending')].conversationId # Empty
      ]_vars

\* A request was dropped for its missing field while a user was registered, a
\* socket was in a group and a message was stored.
InputErrorsWitness ==
    /\ \/ lastOp.op = "join" /\ lastOp.userId = Empty
       \/ lastOp.op = "joinConversation" /\ lastOp.conversationId = Empty
       \/ lastOp.op \in {"sendMessage", "fetchMessages"} /\ ~lastOp.accepted
    /\ emits = <<>>
    /\ DOMAIN onlineUsers # {}
    /\ \E h \in Handles : socket[h].rooms # {}
    /\ Len(store) > 0

----------------------------------------------------------------------------
(* C18. Send racing with the sender's disconnect: when the save of a message  *)
(* resolves after its sending socket has disconnected, the message is stored  *)
(* once, every connected member of the conversation's group and the connected *)
(* socket registered for the receiver get 'message', the dead socket gets     *)
(* nothing, and no error event is emitted.                                     *)
SendRacingDisconnect ==
    (lastOp.op = "saveOk" /\ socket[lastOp.req.h].status = "disconnected") =>
        LET req == lastOp.req
            r == req.given.receiverId
        IN  /\ Cardinality({j \in DOMAIN store : store[j] = req.message}) = 1
            /\ Cardinality({j \in DOMAIN store : store[j].id = req.message.id}) = 1
            /\ \A h \in Handles :
                   (socket[h].status = "connected" /\ req.conversationId \in socket[h].rooms)
                   => Received(h) >= 1
            /\ \A h \in Handles :
                   (/\ MapHas(onlineUsers, r)
                    /\ onlineUsers[r] = SocketId(h)
                    /\ socket[h].status = "connected")
                   => Received(h) >= 1
            /\ Received(req.h) = 0
            /\ \A h \in Handles : socket[h].status # "connected" => Received(h) = 0
            /\ \A i \in DOMAIN emits : emits[i].ev = "message"
            /\ Len(emits) = IF MapHas(onlineUsers, r) THEN 2 ELSE 1

\* The save resolved after its sender had gone, and the message went through
\* the group emit to a member and through the direct emit to the receiver's
\* socket.
SendRacingDisconnectWitness ==
    /\ lastOp.op = "saveOk"
    /\ socket[lastOp.req.h].status = "disconnected"
    /\ lastOp.req.message \in Range(store)
    /\ Len(emits) = 2
    /\ emits[1].rcpt # {}
    /\ emits[2].rcpt # {}
    /\ emits[2].room # SocketId(lastOp.req.h)

----------------------------------------------------------------------------
(* C19. Recipients are resolved at fan-out time: when a save resolves, the    *)
(* group emit reaches the sockets that are members of the conversation's      *)
(* group at that moment and the direct emit is made exactly when the registry *)
(* holds the receiver at that moment, to the socket id it holds then,         *)
(* whatever the group and the registry were when the message was submitted.   *)
RecipientsAtFanOut ==
    lastOp.op = "saveOk" =>
        LET req == lastOp.req
            r == req.given.receiverId
        IN  /\ Len(emits) >= 1
            /\ emits[1].to = "room"
            /\ emits[1].room = req.conversationId
            /\ emits[1].rcpt = {h \in Handles : /\ socket[h].status = "connected"
                                                /\ req.conversationId \in socket[h].rooms}
            /\ IF MapHas(onlineUsers, r)
               THEN /\ Len(emits) = 2
                    /\ emits[2].to = "room"
                    /\ emits[2].room = onlineUsers[r]
                    /\ \A h \in Handles :
                           (onlineUsers[r] = SocketId(h) /\ socket[h].status = "connected")
                           => h \in emits[2].rcpt
               ELSE Len(emits) = 1

\* While the save was pending the receiver announced itself on a socket that
\* was not the registered one at submission, and that socket joined the group:
\* the new socket got both emits, neither of which it would have got from the
\* state at submission.
RecipientsAtFanOutWitness ==
    /\ lastOp.op = "saveOk"
    /\ Len(emits) = 2
    /\ lastOp.req.seen.direct # emits[2].room
    /\ lastOp.req.seen.group # emits[1].rcpt
    /\ \E h \in Handles :
           /\ emits[2].room = SocketId(h)
           /\ h \in emits[2].rcpt
           /\ h \in emits[1].rcpt
           /\ h \notin lastOp.req.seen.group

\* The receiver withdrew while the save was pending: no direct emit is made.
RecipientsWithdrawnWitness ==
    /\ lastOp.op = "saveOk"
    /\ lastOp.req.seen.direct # Empty
    /\ ~MapHas(onlineUsers, lastOp.req.given.receiverId)
    /\ Len(emits) = 1

====
